---- MODULE Spec2Model ----
(***************************************************************************)
(* Result data model of amazon_fmeval.eval_algorithms: EvalScore,          *)
(* CategoryScore and EvalOutput, their __eq__ methods and the              *)
(* EvalOutput.__post_init__ validation.                                    *)
(*                                                                         *)
(* Python values are records tagged with their class in the field cls; an  *)
(* attribute read o.f of an object that has no field f raises              *)
(* AttributeError.  A call gives a string: the value it returns ("True",   *)
(* "False", "None") or the name of the exception that leaves it.  Floats   *)
(* are modelled by integer-valued floats, on which subtraction is exact.   *)
(***************************************************************************)
EXTENDS Integers, Sequences, FiniteSets

VARIABLES self, other, pc, ret

vars == <<self, other, pc, ret>>

\* ---------------------------------------------------------------- bounds
\* Longest list of EvalScore handed to a CategoryScore or an EvalOutput.
MaxScores == 2

\* Longest list of CategoryScore handed to an EvalOutput.
MaxCategories == 2

\* ------------------------------------------------------- Python values
None == [cls |-> "NoneType"]

Str(s) == [cls |-> "str", s |-> s]

List(xs) == [cls |-> "list", items |-> xs]

\* Variant: presence tested as "is not None", so the empty list counts as present.
Truthy_is_not_None(x) == x.cls = "list"

\* bool(x) of an Optional[List]: None and the empty list are falsy.
Truthy(x) == x.cls = "list" /\ Len(x.items) > 0

HasAttr(o, f) == f \in DOMAIN o

PyBool(b) == IF b THEN "True" ELSE "False"

\* Names in ascending order of Python's str comparison (code points).
NameOrder == <<"acc", "catA", "catB", "f1">>

Rank(name) == CHOOSE i \in 1..Len(NameOrder) : NameOrder[i] = name

Abs(x) == IF x < 0 THEN -x ELSE x

Min(x, y) == IF x <= y THEN x ELSE y

\* math.isclose default rel_tol = 1e-09, as its inverse; abs_tol = 0.0.
RelTolInverse == 1000000000

\* ------------------------------------------------------------ classes
EvalScore(name, value) == [cls |-> "EvalScore", name |-> name, value |-> value]

CategoryScore(name, scores) == [cls |-> "CategoryScore", name |-> name, scores |-> scores]

EvalOutput(eval_name, dataset_name, dataset_scores, prompt_template, category_scores, output_path) ==
    [cls |-> "EvalOutput", eval_name |-> eval_name, dataset_name |-> dataset_name,
     dataset_scores |-> dataset_scores, prompt_template |-> prompt_template,
     category_scores |-> category_scores, output_path |-> output_path]

\* ------------------------------------------------- library functions
\* Variant: exact float equality.
isclose_exact(a, b) == a = b

\* math.isclose(a, b) with the default tolerances, on integer-valued floats:
\* diff <= rel_tol * |b| is diff <= |b| \div RelTolInverse for an integer diff.
isclose(a, b) ==
    IF a = b THEN TRUE
    ELSE LET diff == Abs(b - a)
         IN  \/ diff <= Abs(b) \div RelTolInverse
             \/ diff <= Abs(a) \div RelTolInverse
             \/ diff <= 0

\* Variant: the lists are zipped as given, without sorting.
sorted_not(xs) == xs

\* sorted(xs, key=lambda x: x.name): Python's sort is stable, so each element
\* goes behind the elements already placed whose name is not greater.
InsertByName(x, t) ==
    LET k == Cardinality({i \in 1..Len(t) : Rank(t[i].name) <= Rank(x.name)})
    IN  SubSeq(t, 1, k) \o <<x>> \o SubSeq(t, k + 1, Len(t))

RECURSIVE sorted(_)
sorted(xs) ==
    IF xs = <<>> THEN <<>>
    ELSE InsertByName(xs[Len(xs)], sorted(SubSeq(xs, 1, Len(xs) - 1)))

\* seq(s).zip(seq(t)): zip stops at the shorter sequence.
Zip(s, t) == [i \in 1..Min(Len(s), Len(t)) |-> <<s[i], t[i]>>]

\* .filter(lambda item: item[0] == item[1]).len(), given the outcome of
\* item[0] == item[1] for each item in turn: the number of items that are
\* kept, unless a comparison raises, which leaves the chain.
FilterLen(outcomes) ==
    LET raising == {i \in 1..Len(outcomes) : outcomes[i] \notin {"True", "False"}}
        first == CHOOSE i \in raising : \A j \in raising : i <= j
    IN  IF raising # {}
        THEN [exc |-> outcomes[first], len |-> 0]
        ELSE [exc |-> "None",
              len |-> Cardinality({i \in 1..Len(outcomes) : outcomes[i] = "True"})]

\* ------------------------------------------------------------ methods
\* EvalScore.__eq__: a failed assert is caught and gives False; any other
\* exception propagates.
EvalScore__eq__(this, that) ==
    IF ~HasAttr(that, "name") THEN "AttributeError"
    ELSE IF this.name # that.name THEN "False"
    ELSE IF ~HasAttr(that, "value") THEN "AttributeError"
    ELSE PyBool(isclose(this.value, that.value))

\* CategoryScore.__eq__
CategoryScore__eq__(this, that) ==
    IF ~HasAttr(that, "name") THEN "AttributeError"
    ELSE IF this.name # that.name THEN "False"
    ELSE IF ~HasAttr(that, "scores") THEN "AttributeError"
    ELSE IF Len(this.scores) # Len(that.scores) THEN "False"
    ELSE LET items == Zip(sorted(this.scores), sorted(that.scores))
             z == FilterLen([i \in 1..Len(items) |-> EvalScore__eq__(items[i][1], items[i][2])])
         IN  IF z.exc # "None" THEN z.exc
             ELSE PyBool(z.len = Len(this.scores))

\* Variant: the score count is compared with the number of categories.
post_init_counts_categories(this) ==
    IF ~(this.category_scores.cls = "list" /\ Len(this.category_scores.items) > 0) THEN "None"
    ELSE LET cats == this.category_scores.items
         IN  IF \A k \in 1..Len(cats) :
                    /\ Len(cats[k].scores) = Len(cats)
                    /\ [i \in 1..Len(this.dataset_scores) |-> this.dataset_scores[i].name]
                           = [i \in 1..Len(cats[k].scores) |-> cats[k].scores[i].name]
             THEN "None"
             ELSE "AssertionError"

\* Variant: only the score counts are compared, not the names.
post_init_counts_only(this) ==
    IF ~(this.category_scores.cls = "list" /\ Len(this.category_scores.items) > 0) THEN "None"
    ELSE IF \A k \in 1..Len(this.category_scores.items) :
                Len(this.category_scores.items[k].scores) = Len(this.dataset_scores)
         THEN "None"
         ELSE "AssertionError"

\* Variant: no early return, and the loop runs over category_scores as it
\* is: iterating None raises TypeError.
post_init_unguarded(this) ==
    IF this.category_scores.cls # "list" THEN "TypeError"
    ELSE IF \A k \in 1..Len(this.category_scores.items) :
                /\ Len(this.category_scores.items[k].scores) = Len(this.dataset_scores)
                /\ [i \in 1..Len(this.dataset_scores) |-> this.dataset_scores[i].name]
                       = [i \in 1..Len(this.category_scores.items[k].scores) |->
                             this.category_scores.items[k].scores[i].name]
         THEN "None"
         ELSE "AssertionError"

\* EvalOutput.__post_init__: returns None or raises AssertionError.
EvalOutput__post_init__(this) ==
    IF ~Truthy(this.category_scores) THEN "None"
    ELSE LET dataset_score_names ==
                 [i \in 1..Len(this.dataset_scores) |-> this.dataset_scores[i].name]
             cats == this.category_scores.items
             names(category_score) ==
                 [i \in 1..Len(category_score.scores) |-> category_score.scores[i].name]
         IN  IF \A k \in 1..Len(cats) :
                    /\ Len(cats[k].scores) = Len(this.dataset_scores)
                    /\ dataset_score_names = names(cats[k])
             THEN "None"
             ELSE "AssertionError"

\* Variant: output_path is compared as well, as the generated dataclass
\* __eq__ would.
eq_with_output_path(this, that) ==
    IF ~HasAttr(that, "eval_name") THEN "AttributeError"
    ELSE IF this.eval_name # that.eval_name THEN "False"
    ELSE IF ~HasAttr(that, "dataset_name") THEN "AttributeError"
    ELSE IF this.dataset_name # that.dataset_name THEN "False"
    ELSE IF ~HasAttr(that, "prompt_template") THEN "AttributeError"
    ELSE IF this.prompt_template # that.prompt_template THEN "False"
    ELSE IF ~HasAttr(that, "output_path") THEN "AttributeError"
    ELSE IF this.output_path # that.output_path THEN "False"
    ELSE IF ~HasAttr(that, "dataset_scores") THEN "AttributeError"
    ELSE IF ~(IF that.dataset_scores # <<>>
              THEN this.dataset_scores # <<>>
              ELSE this.dataset_scores = <<>>) THEN "False"
    ELSE IF Len(this.dataset_scores) # Len(that.dataset_scores) THEN "False"
    ELSE LET ds == Zip(sorted(this.dataset_scores), sorted(that.dataset_scores))
             zd == FilterLen([i \in 1..Len(ds) |-> EvalScore__eq__(ds[i][1], ds[i][2])])
         IN
         IF zd.exc # "None" THEN zd.exc
         ELSE IF zd.len # Len(this.dataset_scores) THEN "False"
         ELSE IF ~HasAttr(that, "category_scores") THEN "AttributeError"
         ELSE IF ~(IF Truthy(that.category_scores)
                   THEN Truthy(this.category_scores)
                   ELSE ~Truthy(this.category_scores)) THEN "False"
         ELSE IF ~Truthy(this.category_scores) THEN "True"
         ELSE LET cs == Zip(sorted(this.category_scores.items),
                                sorted(that.category_scores.items))
                  zc == FilterLen([i \in 1..Len(cs) |->
                                      CategoryScore__eq__(cs[i][1], cs[i][2])])
              IN  IF zc.exc # "None" THEN zc.exc
                  ELSE PyBool(zc.len = Len(this.category_scores.items))

\* EvalOutput.__eq__
EvalOutput__eq__(this, that) ==
    IF ~HasAttr(that, "eval_name") THEN "AttributeError"
    ELSE IF this.eval_name # that.eval_name THEN "False"
    ELSE IF ~HasAttr(that, "dataset_name") THEN "AttributeError"
    ELSE IF this.dataset_name # that.dataset_name THEN "False"
    ELSE IF ~HasAttr(that, "prompt_template") THEN "AttributeError"
    ELSE IF this.prompt_template # that.prompt_template THEN "False"
    ELSE IF ~HasAttr(that, "dataset_scores") THEN "AttributeError"
    ELSE IF ~(IF that.dataset_scores # <<>>
              THEN this.dataset_scores # <<>>
              ELSE this.dataset_scores = <<>>) THEN "False"
    ELSE IF Len(this.dataset_scores) # Len(that.dataset_scores) THEN "False"
    ELSE LET ds == Zip(sorted(this.dataset_scores), sorted(that.dataset_scores))
             zd == FilterLen([i \in 1..Len(ds) |-> EvalScore__eq__(ds[i][1], ds[i][2])])
         IN
         IF zd.exc # "None" THEN zd.exc
         ELSE IF zd.len # Len(this.dataset_scores) THEN "False"
         ELSE IF ~HasAttr(that, "category_scores") THEN "AttributeError"
         ELSE IF ~(IF Truthy(that.category_scores)
                   THEN Truthy(this.category_scores)
                   ELSE ~Truthy(this.category_scores)) THEN "False"
         ELSE IF ~Truthy(this.category_scores) THEN "True"
         ELSE LET cs == Zip(sorted(this.category_scores.items),
                                sorted(that.category_scores.items))
                  zc == FilterLen([i \in 1..Len(cs) |->
                                      CategoryScore__eq__(cs[i][1], cs[i][2])])
              IN  IF zc.exc # "None" THEN zc.exc
                  ELSE PyBool(zc.len = Len(this.category_scores.items))

\* ------------------------------------------------------------- inputs
ScoreNames == {"acc", "f1"}

CategoryNames == {"catA", "catB"}

\* 2000000000.0 and 2000000001.0 are close under rel_tol 1e-09; 0.0 is close
\* to nothing but itself.
Values == {0, 2000000000, 2000000001}

SeqsUpTo(S, n) == UNION {[1..k -> S] : k \in 0..n}

EvalScores == {EvalScore(n, v) : n \in ScoreNames, v \in Values}

CategoryScores ==
    {CategoryScore(n, ss) : n \in CategoryNames, ss \in SeqsUpTo(EvalScores, MaxScores)}

\* Operands of another class than the receiver's.
Strangers ==
    {None, Str("acc"), EvalScore("acc", 0), EvalScore("catA", 0),
     CategoryScore("acc", <<>>), CategoryScore("catA", <<>>)}

\* --------------------------------------------------- EvalScore == x
InitScore ==
    /\ self \in EvalScores
    /\ other \in EvalScores \cup (Strangers \ EvalScores)
    /\ pc = "call"
    /\ ret = "pending"

EvalScoreEq ==
    /\ pc = "call"
    /\ self.cls = "EvalScore"
    /\ ret' = EvalScore__eq__(self, other)
    /\ pc' = "done"
    /\ UNCHANGED <<self, other>>

SpecScore == InitScore /\ [][EvalScoreEq]_vars

\* ----------------------------------------------- CategoryScore == x
InitCategory ==
    /\ self \in CategoryScores
    /\ other \in CategoryScores \cup (Strangers \ CategoryScores)
    /\ pc = "call"
    /\ ret = "pending"

CategoryScoreEq ==
    /\ pc = "call"
    /\ self.cls = "CategoryScore"
    /\ ret' = CategoryScore__eq__(self, other)
    /\ pc' = "done"
    /\ UNCHANGED <<self, other>>

SpecCategory == InitCategory /\ [][CategoryScoreEq]_vars

\* ------------------------------------------- EvalOutput(...) arguments
\* __post_init__ and EvalOutput.__eq__ are driven with one value per score
\* name; the values are varied under SpecScore and SpecCategory.
OutputScores == {EvalScore(n, 2000000000) : n \in ScoreNames}

OutputCategories ==
    {CategoryScore(n, ss) : n \in CategoryNames, ss \in SeqsUpTo(OutputScores, MaxScores)}

OptionalCategoryLists ==
    {None} \cup {List(cs) : cs \in SeqsUpTo(OutputCategories, MaxCategories)}

\* eval_name, dataset_name, prompt_template and output_path: the first tuple,
\* and the tuples that depart from it in one field.
Provenances ==
    {<<"factual_knowledge", "trex", None, None>>,
     <<"toxicity", "trex", None, None>>,
     <<"factual_knowledge", "boolq", None, None>>,
     <<"factual_knowledge", "trex", Str("Answer: $feature"), None>>,
     <<"factual_knowledge", "trex", None, Str("/tmp/eval_output.jsonl")>>}

DefaultProvenance == <<"factual_knowledge", "trex", None, None>>

DatasetScoreLists == SeqsUpTo(OutputScores, MaxScores)

\* EvalOutput(eval_name=.., dataset_name=.., dataset_scores=ds, ...)
NewEvalOutput(p, ds, cs) == EvalOutput(p[1], p[2], ds, p[3], cs, p[4])

\* ------------------------------------------------- EvalOutput(...)
InitConstruct ==
    /\ \E ds \in DatasetScoreLists, cs \in OptionalCategoryLists :
            self = NewEvalOutput(DefaultProvenance, ds, cs)
    /\ other = None
    /\ pc = "call"
    /\ ret = "pending"

\* The dataclass __init__ has set the fields; __post_init__ runs.
Construct ==
    /\ pc = "call"
    /\ self.cls = "EvalOutput"
    /\ other = None
    /\ ret' = EvalOutput__post_init__(self)
    /\ pc' = "done"
    /\ UNCHANGED <<self, other>>

SpecConstruct == InitConstruct /\ [][Construct]_vars

\* -------------------------------------------------- EvalOutput == x
\* The EvalOutput objects that exist: those whose construction returned.
\* __post_init__ reads dataset_scores and category_scores only, so the
\* arguments are screened under one provenance and then given each of them.
Constructed ==
    {a \in DatasetScoreLists \X OptionalCategoryLists :
        EvalOutput__post_init__(NewEvalOutput(DefaultProvenance, a[1], a[2])) = "None"}

EvalOutputs == {NewEvalOutput(p, a[1], a[2]) : p \in Provenances, a \in Constructed}

InitOutput ==
    /\ self \in EvalOutputs
    /\ other \in EvalOutputs \cup {None}
    /\ pc = "call"
    /\ ret = "pending"

EvalOutputEq ==
    /\ pc = "call"
    /\ self.cls = "EvalOutput"
    /\ ret' = EvalOutput__eq__(self, other)
    /\ pc' = "done"
    /\ UNCHANGED <<self, other>>

SpecOutput == InitOutput /\ [][EvalOutputEq]_vars

\* ============================================================ claims
Max(x, y) == IF x >= y THEN x ELSE y

\* |a - b| <= 1e-09 * max(|a|, |b|)
WithinTolerance(a, b) == Abs(a - b) <= Max(Abs(a), Abs(b)) \div RelTolInverse

NameSeq(xs) == [i \in 1..Len(xs) |-> xs[i].name]

NameSet(xs) == {xs[i].name : i \in 1..Len(xs)}

UniqueNames(xs) == \A i, j \in 1..Len(xs) : xs[i].name = xs[j].name => i = j

\* The items of an Optional[List]; None has none.
Items(x) == IF x.cls = "list" THEN x.items ELSE <<>>

Returned == pc = "done"

\* ------------------------------------------------------------ SpecScore
\* C8: two EvalScores are equal if and only if their names are identical and
\* their values lie within the relative tolerance 1e-09 of each other.
C8_ScoreEqualIffNameAndTolerance ==
    (Returned /\ other.cls = "EvalScore") =>
        /\ ret \in {"True", "False"}
        /\ ret = "True" <=>
              (self.name = other.name /\ WithinTolerance(self.value, other.value))

\* Two scores of one name with close, different values compared equal.
C8_Witness ==
    /\ Returned
    /\ other.cls = "EvalScore"
    /\ self.name = other.name
    /\ self.value # other.value
    /\ ret = "True"

\* C6: == on EvalScore, CategoryScore and EvalOutput returns True or False
\* for every operand, operands of another class included, and never raises.
C6_EqualityNeverRaises == Returned => ret \in {"True", "False"}

\* --------------------------------------------------------- SpecCategory
\* C4: for CategoryScores whose score names are unique on each side, X == Y
\* if and only if the names are identical, the score lists have the same
\* length and every score of X has an equal score of the same name in Y.
C4_CategoryEqualIffPairedByName ==
    (/\ Returned
     /\ other.cls = "CategoryScore"
     /\ UniqueNames(self.scores)
     /\ UniqueNames(other.scores)) =>
        /\ ret \in {"True", "False"}
        /\ ret = "True" <=>
              /\ self.name = other.name
              /\ Len(self.scores) = Len(other.scores)
              /\ \A i \in 1..Len(self.scores) : \E j \in 1..Len(other.scores) :
                    /\ other.scores[j].name = self.scores[i].name
                    /\ EvalScore__eq__(self.scores[i], other.scores[j]) = "True"

\* Two categories listing the same two scores in opposite orders compared equal.
C4_Witness ==
    /\ Returned
    /\ other.cls = "CategoryScore"
    /\ Len(self.scores) = 2
    /\ UniqueNames(self.scores)
    /\ Len(other.scores) = 2
    /\ other.scores[1] = self.scores[2]
    /\ other.scores[2] = self.scores[1]
    /\ ret = "True"

\* -------------------------------------------------------- SpecConstruct
\* C1 as stated: with non-empty category_scores, construction succeeds
\* whenever every category has len(dataset_scores) scores and the set of its
\* score names is the set of the dataset_scores names, in whatever order.
C1_SucceedsOnEqualNameSets ==
    (/\ Returned
     /\ Truthy(self.category_scores)
     /\ \A k \in 1..Len(self.category_scores.items) :
           /\ Len(self.category_scores.items[k].scores) = Len(self.dataset_scores)
           /\ NameSet(self.category_scores.items[k].scores) = NameSet(self.dataset_scores))
        => ret = "None"

\* C1 amended: with non-empty category_scores, construction succeeds whenever
\* every category lists the dataset_scores names in the dataset_scores order;
\* a category that lists them in another order makes it raise.
C1_SucceedsOnEqualNameLists ==
    (Returned /\ Truthy(self.category_scores)) =>
        /\ (\A k \in 1..Len(self.category_scores.items) :
               NameSeq(self.category_scores.items[k].scores) = NameSeq(self.dataset_scores))
           => ret = "None"
        /\ (\E k \in 1..Len(self.category_scores.items) :
               /\ NameSet(self.category_scores.items[k].scores) = NameSet(self.dataset_scores)
               /\ NameSeq(self.category_scores.items[k].scores) # NameSeq(self.dataset_scores))
           => ret = "AssertionError"

\* Two categories, each listing two dataset score names in order, were accepted.
C1_Witness ==
    /\ Returned
    /\ Truthy(self.category_scores)
    /\ Len(self.category_scores.items) = 2
    /\ Len(self.dataset_scores) = 2
    /\ self.dataset_scores[1].name # self.dataset_scores[2].name
    /\ ret = "None"

\* C2: with non-empty category_scores, construction raises whenever some
\* category has a score count other than len(dataset_scores) or a set of
\* score names other than the set of dataset_scores names.
C2_RaisesOnCountOrNameSetMismatch ==
    (/\ Returned
     /\ Truthy(self.category_scores)
     /\ \E k \in 1..Len(self.category_scores.items) :
           \/ Len(self.category_scores.items[k].scores) # Len(self.dataset_scores)
           \/ NameSet(self.category_scores.items[k].scores) # NameSet(self.dataset_scores))
        => ret = "AssertionError"

\* A category with the right count and another name was rejected, after a
\* category that matches.
C2_Witness ==
    /\ Returned
    /\ Truthy(self.category_scores)
    /\ Len(self.category_scores.items) = 2
    /\ Len(self.dataset_scores) = 1
    /\ NameSeq(self.category_scores.items[1].scores) = NameSeq(self.dataset_scores)
    /\ Len(self.category_scores.items[2].scores) = 1
    /\ NameSet(self.category_scores.items[2].scores) # NameSet(self.dataset_scores)
    /\ ret = "AssertionError"

\* C9: with category_scores None or empty, construction validates nothing
\* and succeeds for every dataset_scores.
C9_NoValidationWithoutCategories ==
    (Returned /\ ~Truthy(self.category_scores)) => ret = "None"

\* An output without category_scores and with two dataset scores was accepted.
C9_Witness ==
    /\ Returned
    /\ self.category_scores = None
    /\ Len(self.dataset_scores) = 2
    /\ ret = "None"

\* ----------------------------------------------------------- SpecOutput
SameProvenance ==
    /\ self.eval_name = other.eval_name
    /\ self.dataset_name = other.dataset_name
    /\ self.prompt_template = other.prompt_template

\* C3: two EvalOutputs with non-empty category_scores of different lengths
\* are not equal, whichever of the two is the receiver (stated for category
\* names unique within each output, as the data model asks).
C3_DifferentCategoryCountsUnequal ==
    (/\ Returned
     /\ other.cls = "EvalOutput"
     /\ Truthy(self.category_scores)
     /\ Truthy(other.category_scores)
     /\ UniqueNames(self.category_scores.items)
     /\ UniqueNames(other.category_scores.items)
     /\ Len(self.category_scores.items) # Len(other.category_scores.items))
        => ret = "False"

\* C10: EvalOutput equality is symmetric: a == b and b == a give the same
\* boolean (stated for names unique within each collection, as the data
\* model asks).
C10_EqualitySymmetric ==
    (/\ Returned
     /\ other.cls = "EvalOutput"
     /\ UniqueNames(self.dataset_scores)
     /\ UniqueNames(other.dataset_scores)
     /\ UniqueNames(Items(self.category_scores))
     /\ UniqueNames(Items(other.category_scores)))
        => ret = EvalOutput__eq__(other, self)

\* t holds the items of s in some order; items are told apart by name and
\* compared with their own ==.
ScoresPermuted(s, t) ==
    /\ Len(s) = Len(t)
    /\ \A i \in 1..Len(s) : \E j \in 1..Len(t) :
          t[j].name = s[i].name /\ EvalScore__eq__(s[i], t[j]) = "True"

CategoriesPermuted(s, t) ==
    /\ Len(s) = Len(t)
    /\ \A i \in 1..Len(s) : \E j \in 1..Len(t) :
          t[j].name = s[i].name /\ CategoryScore__eq__(s[i], t[j]) = "True"

\* C5: EvalOutputs with the same eval_name, dataset_name and prompt_template,
\* whose dataset_scores are permutations of one another and whose
\* category_scores are permutations of one another, names unique in each
\* collection, are equal; output_path is not compared.
C5_PermutedOutputsEqual ==
    (/\ Returned
     /\ other.cls = "EvalOutput"
     /\ SameProvenance
     /\ UniqueNames(self.dataset_scores)
     /\ UniqueNames(other.dataset_scores)
     /\ ScoresPermuted(self.dataset_scores, other.dataset_scores)
     /\ self.category_scores.cls = other.category_scores.cls
     /\ UniqueNames(Items(self.category_scores))
     /\ UniqueNames(Items(other.category_scores))
     /\ CategoriesPermuted(Items(self.category_scores), Items(other.category_scores)))
        => ret = "True"

\* Outputs with two dataset scores and two categories, both listed in
\* opposite orders, and with different output paths compared equal.
C5_Witness ==
    /\ Returned
    /\ other.cls = "EvalOutput"
    /\ SameProvenance
    /\ self.output_path # other.output_path
    /\ Len(self.dataset_scores) = 2
    /\ UniqueNames(self.dataset_scores)
    /\ other.dataset_scores = <<self.dataset_scores[2], self.dataset_scores[1]>>
    /\ Truthy(self.category_scores)
    /\ Len(self.category_scores.items) = 2
    /\ UniqueNames(self.category_scores.items)
    /\ other.category_scores.cls = "list"
    /\ UniqueNames(other.category_scores.items)
    /\ other.category_scores.items[1].name = self.category_scores.items[2].name
    /\ CategoriesPermuted(self.category_scores.items, other.category_scores.items)
    /\ ret = "True"

\* C7: EvalOutputs that agree on eval_name, dataset_name, prompt_template and
\* dataset_scores, one with category_scores None and the other with [], are
\* equal in both directions; an output whose category_scores is None or
\* empty is never equal to one whose category_scores is non-empty.
C7_NoneAndEmptyCategoriesAlike ==
    (Returned /\ other.cls = "EvalOutput") =>
        /\ (/\ SameProvenance
            /\ self.dataset_scores = other.dataset_scores
            /\ {self.category_scores, other.category_scores} = {None, List(<<>>)})
           => ret = "True"
        /\ (Truthy(self.category_scores) # Truthy(other.category_scores))
           => ret = "False"

\* An output with category_scores None compared equal to one with [].
C7_Witness ==
    /\ Returned
    /\ other.cls = "EvalOutput"
    /\ self.category_scores = None
    /\ other.category_scores = List(<<>>)
    /\ Len(self.dataset_scores) = 2
    /\ ret = "True"

====
